---- MODULE Spec2Model ----
(***************************************************************************)
(* Model of homeassistant/components/isy994/__init__.py: the classifiers   *)
(* that sort ISY-994 nodes, programs, variables and weather attributes     *)
(* into the per-domain collections of hass.data, and setup() that drives   *)
(* them.                                                                   *)
(*                                                                         *)
(* Python values are modelled as follows.  Strings are TLA+ strings, with  *)
(* startswith / in / lower computed character by character.  An attribute  *)
(* that is missing or None is the empty tuple None, a present value v is   *)
(* the one-element tuple <<v>>.  A node object stored in a bucket is       *)
(* represented by its reference: the position of the node in the           *)
(* iteration of isy.nodes.                                                 *)
(***************************************************************************)
EXTENDS Integers, Sequences, FiniteSets, TLC

VARIABLES
    pc,             \* position of the running code
    config,         \* isy_config: the validated configuration of the domain
    isy,            \* what the controller reports (PyISY.ISY object)
    nodeBuckets,    \* hass.data[ISY994_NODES]
    programBuckets, \* hass.data[ISY994_PROGRAMS]
    variableBuckets,\* hass.data[ISY994_VARIABLES]
    weather,        \* hass.data[ISY994_WEATHER]
    nodeIdx,        \* number of (path, node) pairs the for loop has fetched
    cur,            \* the loop variables (path, node) of _categorize_nodes
    log,            \* records emitted on _LOGGER
    loaded,         \* platforms handed to discovery.load_platform, in order
    autoUpdate,     \* isy.auto_update
    result,         \* how the pass ended: "True", "False" or "raised ..."
    passes,         \* number of setup passes started
    trace,          \* the classifier calls the running pass has made, in order
    prev            \* the collections as the previous pass left them

vars == <<pc, config, isy, nodeBuckets, programBuckets, variableBuckets,
          weather, nodeIdx, cur, log, loaded, autoUpdate, result, passes,
          trace, prev>>

-----------------------------------------------------------------------------
(* Bounds *)

MaxNodes == 2

-----------------------------------------------------------------------------
(* Python helpers *)

None == <<>>
Some(v) == <<v>>
IsNone(o) == o = <<>>
Val(o) == o[1]

Min(S) == CHOOSE m \in S : \A n \in S : m <= n

\* str.startswith
StartsWith(s, p) == Len(s) >= Len(p) /\ SubSeq(s, 1, Len(p)) = p

\* the substring test "sub in s"
Contains(sub, s) ==
    \E k \in 0..(Len(s) - Len(sub)) : SubSeq(s, k + 1, k + Len(sub)) = sub

UpperChars == "ABCDEFGHIJKLMNOPQRSTUVWXYZ"
LowerChars == "abcdefghijklmnopqrstuvwxyz"

LowerChar(c) ==
    LET S == {k \in 1..26 : SubSeq(UpperChars, k, k) = c}
    IN  IF S = {} THEN c ELSE SubSeq(LowerChars, Min(S), Min(S))

RECURSIVE Lower(_)
\* str.lower
Lower(s) ==
    IF Len(s) = 0 THEN ""
    ELSE LowerChar(SubSeq(s, 1, 1)) \o Lower(SubSeq(s, 2, Len(s)))

Digits == "0123456789"

RECURSIVE Str(_)
\* str(n) for a natural number n
Str(n) ==
    IF n < 10 THEN SubSeq(Digits, n + 1, n + 1)
    ELSE Str(n \div 10) \o SubSeq(Digits, (n % 10) + 1, (n % 10) + 1)

\* int(c) for a one-character string c; -1 stands for the ValueError
IntOfChar(c) ==
    LET S == {k \in 1..10 : SubSeq(Digits, k, k) = c}
    IN  IF S = {} THEN -1 ELSE Min(S) - 1

\* s[-1]
LastChar(s) == SubSeq(s, Len(s), Len(s))

\* set(map(f, seq))
SetOfSeq(seq) == {seq[k] : k \in 1..Len(seq)}

-----------------------------------------------------------------------------
(* Constants of the module *)

KEY_ACTIONS == "actions"
KEY_FOLDER == "folder"
KEY_MY_PROGRAMS == "My Programs"
KEY_STATUS == "status"

DEFAULT_IGNORE_STRING == "{IGNORE ME}"
DEFAULT_SENSOR_STRING == "sensor"

StrRange(a, b) == {Str(n) : n \in a..(b - 1)}

NODE_FILTERS ==
    [binary_sensor |->
        [uom |-> {},
         states |-> {},
         node_def_id |-> {"BinaryAlarm", "OnOffControl_ADV"},
         insteon_type |-> {"7.13.", "16."},
         zwave_cat |-> {"104", "112", "138"} \cup StrRange(148, 179)],
     sensor |->
        [uom |-> {"1"} \cup StrRange(3, 11) \cup StrRange(12, 51)
                   \cup StrRange(52, 66) \cup StrRange(69, 78)
                   \cup {"79"} \cup StrRange(82, 97),
         states |-> {},
         node_def_id |-> {"IMETER_SOLO"},
         insteon_type |-> {"9.0.", "9.7."},
         zwave_cat |-> {"118"} \cup StrRange(180, 184)],
     lock |->
        [uom |-> {"11"},
         states |-> {"locked", "unlocked"},
         node_def_id |-> {"DoorLock"},
         insteon_type |-> {"15."},
         zwave_cat |-> {"111"}],
     fan |->
        [uom |-> {},
         states |-> {"off", "low", "med", "high"},
         node_def_id |-> {"FanLincMotor"},
         insteon_type |-> {"1.46."},
         zwave_cat |-> {}],
     cover |->
        [uom |-> {"97"},
         states |-> {"open", "closed", "closing", "opening", "stopped"},
         node_def_id |-> {},
         insteon_type |-> {},
         zwave_cat |-> {}],
     light |->
        [uom |-> {"51"},
         states |-> {"on", "off", "%"},
         node_def_id |-> {"DimmerLampSwitch", "DimmerLampSwitch_ADV",
                          "DimmerSwitchOnly", "DimmerSwitchOnly_ADV",
                          "DimmerLampOnly", "BallastRelayLampSwitch",
                          "BallastRelayLampSwitch_ADV",
                          "RemoteLinc2", "RemoteLinc2_ADV"},
         insteon_type |-> {"1."},
         zwave_cat |-> {"109", "119"}],
     switch |->
        [uom |-> {"2", "78"},
         states |-> {"on", "off"},
         node_def_id |-> {"OnOffControl", "RelayLampSwitch",
                          "RelayLampSwitch_ADV", "RelaySwitchOnlyPlusQuery",
                          "RelaySwitchOnlyPlusQuery_ADV", "RelayLampOnly",
                          "RelayLampOnly_ADV", "KeypadButton",
                          "KeypadButton_ADV", "EZRAIN_Input", "EZRAIN_Output",
                          "EZIO2x4_Input", "EZIO2x4_Input_ADV",
                          "BinaryControl", "BinaryControl_ADV",
                          "AlertModuleSiren", "AlertModuleSiren_ADV",
                          "AlertModuleArmed", "Siren", "Siren_ADV"},
         insteon_type |-> {"2.", "9.10.", "9.11."},
         zwave_cat |-> {"121", "122", "123", "137", "141", "147"}],
     climate |->
        [uom |-> {"2"},
         states |-> {"heating", "cooling", "idle", "fan_only", "off"},
         node_def_id |-> {"TempLinc", "Thermostat"},
         insteon_type |-> {"5."},
         zwave_cat |-> {"140"}]]

SUPPORTED_DOMAINS ==
    <<"binary_sensor", "sensor", "lock", "fan", "cover", "light", "switch",
      "climate">>
SUPPORTED_PROGRAM_DOMAINS ==
    <<"binary_sensor", "lock", "fan", "cover", "switch">>
SUPPORTED_VARIABLE_DOMAINS == <<"binary_sensor", "sensor", "switch">>

SCENE_DOMAIN == "switch"

DomainSet == SetOfSeq(SUPPORTED_DOMAINS)

-----------------------------------------------------------------------------
(* Single-dimension matchers.  Each takes the node collections `data`, the *)
(* reference `ref` of the node, the node and the optional single domain,   *)
(* and yields the returned boolean with the collections as it leaves them. *)

NoDomain == ""

Ret(b, data) == [ret |-> b, data |-> data]

\* hass.data[ISY994_NODES][domain].append(node)
AppendTo(data, domain, ref) ==
    [data EXCEPT ![domain] = Append(@, ref)]

\* domains = SUPPORTED_DOMAINS if not single_domain else [single_domain]
DomainsOf(single_domain) ==
    IF single_domain = NoDomain THEN SUPPORTED_DOMAINS
    ELSE <<single_domain>>

\* position of the first domain of the list that is in `hits`, 0 if none
FirstHit(domains, hits) ==
    LET S == {k \in 1..Len(domains) : domains[k] \in hits}
    IN  IF S = {} THEN 0 ELSE Min(S)

_check_for_node_def(data, ref, node, single_domain) ==
    IF IsNone(node.node_def_id) THEN Ret(FALSE, data)
    ELSE
        LET node_def_id == Val(node.node_def_id)
            domains == DomainsOf(single_domain)
            hits == {domain \in DomainSet :
                        node_def_id \in NODE_FILTERS[domain].node_def_id}
            k == FirstHit(domains, hits)
        IN  IF k = 0 THEN Ret(FALSE, data)
            ELSE Ret(TRUE, AppendTo(data, domains[k], ref))

\* InsteonTarget without the FanLinc and thermostat special cases
InsteonTarget_NoRedirect(domain, node) == domain

\* the domain the protocol-type matcher appends to once `domain` matched
InsteonTarget(domain, node) ==
    IF domain = "fan" /\ IntOfChar(LastChar(node.nid)) = 1 THEN "light"
    ELSE IF domain = "climate" /\ IntOfChar(LastChar(node.nid)) \in {2, 3}
         THEN "binary_sensor"
    ELSE domain

_check_for_insteon_type(data, ref, node, single_domain) ==
    IF IsNone(node.type) THEN Ret(FALSE, data)
    ELSE
        LET device_type == Val(node.type)
            domains == DomainsOf(single_domain)
            hits == {domain \in DomainSet :
                        \E t \in NODE_FILTERS[domain].insteon_type :
                            StartsWith(device_type, t)}
            k == FirstHit(domains, hits)
        IN  IF k = 0 THEN Ret(FALSE, data)
            ELSE Ret(TRUE,
                     AppendTo(data, InsteonTarget(domains[k], node), ref))

_check_for_zwave_cat(data, ref, node, single_domain) ==
    IF IsNone(node.devtype_cat) THEN Ret(FALSE, data)
    ELSE
        LET device_type == Val(node.devtype_cat)
            domains == DomainsOf(single_domain)
            hits == {domain \in DomainSet :
                        \E t \in NODE_FILTERS[domain].zwave_cat :
                            StartsWith(device_type, t)}
            k == FirstHit(domains, hits)
        IN  IF k = 0 THEN Ret(FALSE, data)
            ELSE Ret(TRUE, AppendTo(data, domains[k], ref))

\* node_uom = set(map(str.lower, node.uom))
NodeUom(node) == {Lower(Val(node.uom)[k]) : k \in 1..Len(Val(node.uom))}

\* uom_list / states_list is a set; the empty set stands for "not given"
\* (Python tests the truth value of the list, so [] and None are alike)
_check_for_uom_id(data, ref, node, single_domain, uom_list) ==
    IF IsNone(node.uom) THEN Ret(FALSE, data)
    ELSE
        LET node_uom == NodeUom(node)
        IN  IF uom_list # {}
            THEN IF node_uom \cap uom_list # {}
                 THEN Ret(TRUE, AppendTo(data, single_domain, ref))
                 ELSE Ret(FALSE, data)
            ELSE
                LET domains == DomainsOf(single_domain)
                    hits == {domain \in DomainSet :
                                node_uom \cap NODE_FILTERS[domain].uom # {}}
                    k == FirstHit(domains, hits)
                IN  IF k = 0 THEN Ret(FALSE, data)
                    ELSE Ret(TRUE, AppendTo(data, domains[k], ref))

_check_for_states_in_uom(data, ref, node, single_domain, states_list) ==
    IF IsNone(node.uom) THEN Ret(FALSE, data)
    ELSE
        LET node_uom == NodeUom(node)
        IN  IF states_list # {}
            THEN IF node_uom = states_list
                 THEN Ret(TRUE, AppendTo(data, single_domain, ref))
                 ELSE Ret(FALSE, data)
            ELSE
                LET domains == DomainsOf(single_domain)
                    hits == {domain \in DomainSet :
                                node_uom = NODE_FILTERS[domain].states}
                    k == FirstHit(domains, hits)
                IN  IF k = 0 THEN Ret(FALSE, data)
                    ELSE Ret(TRUE, AppendTo(data, domains[k], ref))

\* _is_sensor_a_binary_sensor with the node-def check not restricted to
\* binary_sensor
_is_sensor_a_binary_sensor_AllDomains(data, ref, node) ==
    LET r1 == _check_for_node_def(data, ref, node, NoDomain)
        r2 == _check_for_insteon_type(r1.data, ref, node, "binary_sensor")
        r3 == _check_for_uom_id(r2.data, ref, node, "binary_sensor",
                                {"2", "78"})
        r4 == _check_for_states_in_uom(r3.data, ref, node, "binary_sensor",
                                       {"on", "off"})
    IN  IF r1.ret THEN Ret(TRUE, r1.data)
        ELSE IF r2.ret THEN Ret(TRUE, r2.data)
        ELSE IF r3.ret THEN Ret(TRUE, r3.data)
        ELSE IF r4.ret THEN Ret(TRUE, r4.data)
        ELSE Ret(FALSE, r4.data)

\* _is_sensor_a_binary_sensor that calls the two uom matchers without its
\* own lists of on/off uoms
_is_sensor_a_binary_sensor_NoOverrides(data, ref, node) ==
    LET r1 == _check_for_node_def(data, ref, node, "binary_sensor")
        r2 == _check_for_insteon_type(r1.data, ref, node, "binary_sensor")
        r3 == _check_for_uom_id(r2.data, ref, node, "binary_sensor", {})
        r4 == _check_for_states_in_uom(r3.data, ref, node, "binary_sensor",
                                       {})
    IN  IF r1.ret THEN Ret(TRUE, r1.data)
        ELSE IF r2.ret THEN Ret(TRUE, r2.data)
        ELSE IF r3.ret THEN Ret(TRUE, r3.data)
        ELSE IF r4.ret THEN Ret(TRUE, r4.data)
        ELSE Ret(FALSE, r4.data)

_is_sensor_a_binary_sensor(data, ref, node) ==
    LET r1 == _check_for_node_def(data, ref, node, "binary_sensor")
        r2 == _check_for_insteon_type(r1.data, ref, node, "binary_sensor")
        r3 == _check_for_uom_id(r2.data, ref, node, "binary_sensor",
                                {"2", "78"})
        r4 == _check_for_states_in_uom(r3.data, ref, node, "binary_sensor",
                                       {"on", "off"})
    IN  IF r1.ret THEN Ret(TRUE, r1.data)
        ELSE IF r2.ret THEN Ret(TRUE, r2.data)
        ELSE IF r3.ret THEN Ret(TRUE, r3.data)
        ELSE IF r4.ret THEN Ret(TRUE, r4.data)
        ELSE Ret(FALSE, r4.data)

\* Ignored with the test of node.name left out
Ignored_PathOnly(path, node, ignore_identifier) ==
    Contains(ignore_identifier, path)

\* ignored = ignore_identifier in path or ignore_identifier in node.name
Ignored(path, node, ignore_identifier) ==
    Contains(ignore_identifier, path) \/ Contains(ignore_identifier, node.name)

\* sensor_identifier in path or sensor_identifier in node.name
SensorMarked(path, node, sensor_identifier) ==
    Contains(sensor_identifier, path) \/ Contains(sensor_identifier, node.name)

\* Cascade without the continue after a successful matcher
Cascade_NoStop(data, ref, node) ==
    LET r1 == _check_for_node_def(data, ref, node, NoDomain)
        r2 == _check_for_insteon_type(r1.data, ref, node, NoDomain)
        r3 == _check_for_zwave_cat(r2.data, ref, node, NoDomain)
        r4 == _check_for_uom_id(r3.data, ref, node, NoDomain, {})
        r5 == _check_for_states_in_uom(r4.data, ref, node, NoDomain, {})
    IN  r5.data

\* Cascade with the uom matcher moved in front of the node-def matcher
Cascade_UomFirst(data, ref, node) ==
    LET r4 == _check_for_uom_id(data, ref, node, NoDomain, {})
        r1 == _check_for_node_def(r4.data, ref, node, NoDomain)
        r2 == _check_for_insteon_type(r1.data, ref, node, NoDomain)
        r3 == _check_for_zwave_cat(r2.data, ref, node, NoDomain)
        r5 == _check_for_states_in_uom(r3.data, ref, node, NoDomain, {})
    IN  IF r4.ret THEN r4.data
        ELSE IF r1.ret THEN r1.data
        ELSE IF r2.ret THEN r2.data
        ELSE IF r3.ret THEN r3.data
        ELSE r5.data

\* the default cascade of the loop body of _categorize_nodes
Cascade(data, ref, node) ==
    LET r1 == _check_for_node_def(data, ref, node, NoDomain)
        r2 == _check_for_insteon_type(r1.data, ref, node, NoDomain)
        r3 == _check_for_zwave_cat(r2.data, ref, node, NoDomain)
        r4 == _check_for_uom_id(r3.data, ref, node, NoDomain, {})
        r5 == _check_for_states_in_uom(r4.data, ref, node, NoDomain, {})
    IN  IF r1.ret THEN r1.data
        ELSE IF r2.ret THEN r2.data
        ELSE IF r3.ret THEN r3.data
        ELSE IF r4.ret THEN r4.data
        ELSE r5.data

\* CategorizeNode with the sensor-marker check ahead of the Group check
CategorizeNode_SensorFirst(data, ref, path, node, ignore_identifier, sensor_identifier) ==
    IF Ignored(path, node, ignore_identifier) THEN data
    ELSE IF SensorMarked(path, node, sensor_identifier)
         THEN LET r == _is_sensor_a_binary_sensor(data, ref, node)
              IN  IF r.ret THEN r.data
                  ELSE AppendTo(r.data, "sensor", ref)
    ELSE IF node.group THEN AppendTo(data, SCENE_DOMAIN, ref)
    ELSE Cascade(data, ref, node)

\* one iteration of the loop body of _categorize_nodes on (path, node)
CategorizeNode(data, ref, path, node, ignore_identifier, sensor_identifier) ==
    IF Ignored(path, node, ignore_identifier) THEN data
    ELSE IF node.group THEN AppendTo(data, SCENE_DOMAIN, ref)
    ELSE IF SensorMarked(path, node, sensor_identifier)
         THEN LET r == _is_sensor_a_binary_sensor(data, ref, node)
              IN  IF r.ret THEN r.data
                  ELSE AppendTo(r.data, "sensor", ref)
    ELSE Cascade(data, ref, node)


-----------------------------------------------------------------------------
(* Inputs: what the controller can report and what the user can configure *)

\* (path, name) of a node: plain, ignore marker in the path, ignore and
\* sensor marker in the name, sensor marker in the path, sensor marker in
\* the name, and near misses of both markers
PathNames ==
    { <<"/Hall", "Lamp">>,
      <<"/{IGNORE ME}", "Lamp">>,
      <<"/Hall", "Lamp {IGNORE ME} sensor">>,
      <<"/sensors", "Door">>,
      <<"/Hall", "Door sensor">>,
      <<"/{IGNORE}", "Sensor">> }

NodeDefIds == {None, Some("BinaryAlarm"), Some("DoorLock"), Some("Unlisted")}
InsteonTypes ==
    {None, Some("16.1.0.0"), Some("1.46.0.0"), Some("5.11.0.0"),
     Some("4.1.0.0")}
ZwaveCats == {None, Some("140"), Some("104")}
Uoms ==
    {None, Some(<<>>), Some(<<"2">>), Some(<<"51">>), Some(<<"On", "OFF">>)}
Nids == {"1A 2B 3C 1", "1A 2B 3C 2", "1A 2B 3C 3"}

NodeUniverse ==
    { [path |-> pn[1],
       node |-> [name |-> pn[2], group |-> g, node_def_id |-> d, type |-> t,
                 devtype_cat |-> z, uom |-> u, nid |-> a]] :
      pn \in PathNames, g \in BOOLEAN, d \in NodeDefIds, t \in InsteonTypes,
      z \in ZwaveCats, u \in Uoms, a \in Nids }

IgnoreStrings == {DEFAULT_IGNORE_STRING}
SensorStrings == {DEFAULT_SENSOR_STRING, "Sensor"}

EmptyBuckets(domains) == [d \in SetOfSeq(domains) |-> <<>>]

NoConfig ==
    [host |-> "http://isy", ignore_string |-> DEFAULT_IGNORE_STRING,
     sensor_string |-> DEFAULT_SENSOR_STRING, enable_climate |-> FALSE,
     isy_variables |-> [sensors |-> None, binary_sensors |-> None,
                        switches |-> None]]

NoIsy ==
    [connected |-> TRUE, nodes |-> <<>>, programs |-> None,
     variables |-> <<<<>>, <<>>>>, weather_information |-> FALSE,
     climate |-> <<>>]

Collections ==
    [nodes |-> nodeBuckets, programs |-> programBuckets,
     variables |-> variableBuckets, weather |-> weather]

NoCollections ==
    [nodes |-> EmptyBuckets(SUPPORTED_DOMAINS),
     programs |-> EmptyBuckets(SUPPORTED_DOMAINS),
     variables |-> EmptyBuckets(SUPPORTED_VARIABLE_DOMAINS),
     weather |-> <<>>]

\* the state in which setup has created the collections and reached `at`
\* ("idle": setup has not been called yet)
InitAt(at, cfg, ctl) ==
    /\ pc = at
    /\ config = cfg
    /\ isy = ctl
    /\ nodeBuckets = EmptyBuckets(SUPPORTED_DOMAINS)
    /\ programBuckets = EmptyBuckets(SUPPORTED_DOMAINS)
    /\ variableBuckets = EmptyBuckets(SUPPORTED_VARIABLE_DOMAINS)
    /\ weather = <<>>
    /\ nodeIdx = 0
    /\ cur = None
    /\ log = <<>>
    /\ loaded = <<>>
    /\ autoUpdate = FALSE
    /\ result = None
    /\ passes = IF at = "idle" THEN 0 ELSE 1
    /\ trace = <<>>
    /\ prev = None

-----------------------------------------------------------------------------
(* _categorize_nodes, one step per statement of its loop *)

\* for (path, node) in nodes: the next pair of isy.nodes
NodesFor ==
    /\ pc = "nodes_for"
    /\ nodeIdx < Len(isy.nodes)
    /\ cur' = Some(isy.nodes[nodeIdx + 1])
    /\ nodeIdx' = nodeIdx + 1
    /\ pc' = "nodes_body"
    /\ UNCHANGED <<config, isy, nodeBuckets, programBuckets, variableBuckets,
                   weather, log, loaded, autoUpdate, result, passes, trace,
                   prev>>

\* for (path, node) in nodes: the controller reports any further pair
NodesForAny ==
    /\ pc = "nodes_for"
    /\ nodeIdx < MaxNodes
    /\ \E pn \in NodeUniverse : cur' = Some(pn)
    /\ nodeIdx' = nodeIdx + 1
    /\ pc' = "nodes_body"
    /\ UNCHANGED <<config, isy, nodeBuckets, programBuckets, variableBuckets,
                   weather, log, loaded, autoUpdate, result, passes, trace,
                   prev>>

\* the loop body, up to its continue
NodesBody ==
    /\ pc = "nodes_body"
    /\ nodeBuckets' = CategorizeNode(nodeBuckets, nodeIdx, Val(cur).path,
                                     Val(cur).node, config.ignore_string,
                                     config.sensor_string)
    /\ pc' = "nodes_continue"
    /\ UNCHANGED <<config, isy, programBuckets, variableBuckets, weather,
                   nodeIdx, cur, log, loaded, autoUpdate, result, passes,
                   trace, prev>>

\* continue: back to the head of the loop, the loop variables are dead
NodesContinue ==
    /\ pc = "nodes_continue"
    /\ cur' = None
    /\ pc' = "nodes_for"
    /\ UNCHANGED <<config, isy, nodeBuckets, programBuckets, variableBuckets,
                   weather, nodeIdx, log, loaded, autoUpdate, result, passes,
                   trace, prev>>

InitNodes ==
    \E ign \in IgnoreStrings, sens \in SensorStrings :
        InitAt("nodes_for",
               [NoConfig EXCEPT !.ignore_string = ign,
                                !.sensor_string = sens],
               NoIsy)

NextNodes == NodesForAny \/ NodesBody \/ NodesContinue

SpecNodes == InitNodes /\ [][NextNodes]_vars


-----------------------------------------------------------------------------
(* Claims about _categorize_nodes (SpecNodes) *)

\* the domains whose bucket holds the node reference `ref`
Where(ref) ==
    {d \in DomainSet : \E k \in 1..Len(nodeBuckets[d]) : nodeBuckets[d][k] = ref}

\* how many times `ref` occurs in the bucket of domain d
Occurrences(d, ref) ==
    Cardinality({k \in 1..Len(nodeBuckets[d]) : nodeBuckets[d][k] = ref})

\* the node of the running iteration sits once in the bucket of d, nowhere else
PlacedIn(d) ==
    /\ Where(nodeIdx) = {d}
    /\ Occurrences(d, nodeIdx) = 1

\* the loop body has just run on the pair held in cur
Classified == pc = "nodes_continue"

CurPath == Val(cur).path
CurNode == Val(cur).node
\* the configured ignore string / sensor string occurs in the path or name
CurIgnored ==
    \/ Contains(config.ignore_string, CurPath)
    \/ Contains(config.ignore_string, CurNode.name)
CurMarked ==
    \/ Contains(config.sensor_string, CurPath)
    \/ Contains(config.sensor_string, CurNode.name)

\* the pair in cur reaches the default cascade
InCascade == ~CurIgnored /\ ~CurNode.group /\ ~CurMarked

\* C1: one run of the loop body on a (path, node) pair leaves the eight
\* buckets unchanged or appends the node once to exactly one of them.
C1_ZeroOrOneAppend ==
    [][pc = "nodes_body" =>
          \/ nodeBuckets' = nodeBuckets
          \/ \E d \in DomainSet :
                nodeBuckets' = [nodeBuckets EXCEPT ![d] = Append(@, nodeIdx)]
      ]_vars

\* a node that several matchers accept has been placed, and only once
C1_Witness ==
    /\ Classified
    /\ InCascade
    /\ CurNode.node_def_id = Some("DoorLock")
    /\ CurNode.type = Some("5.11.0.0")
    /\ CurNode.devtype_cat = Some("140")
    /\ CurNode.uom = Some(<<"51">>)
    /\ PlacedIn("lock")

\* C2 (as claimed): every non-ignored node carrying the sensor marker, group
\* nodes included, ends in the sensor or the binary_sensor bucket only.
C2_Original ==
    (Classified /\ ~CurIgnored /\ CurMarked)
        => (PlacedIn("sensor") \/ PlacedIn("binary_sensor"))

\* C2 (amended): every non-ignored node that is not a group/scene and carries
\* the sensor marker ends in the sensor or the binary_sensor bucket only.
C2_ForcedSensor ==
    (Classified /\ ~CurIgnored /\ ~CurNode.group /\ CurMarked)
        => (PlacedIn("sensor") \/ PlacedIn("binary_sensor"))

\* a marked node whose metadata every cascade matcher would send elsewhere
C2_Witness ==
    /\ Classified
    /\ ~CurIgnored /\ ~CurNode.group /\ CurMarked
    /\ CurNode.node_def_id = Some("DoorLock")
    /\ CurNode.type = Some("1.46.0.0")
    /\ CurNode.uom = Some(<<"51">>)
    /\ PlacedIn("sensor")

\* C4: when the ignore string occurs in the path or in the name, the loop
\* body leaves all eight buckets unchanged, whatever the node is.
C4_IgnoreWins ==
    [][(pc = "nodes_body" /\ CurIgnored) => nodeBuckets' = nodeBuckets]_vars

\* an ignored scene that carries the sensor marker and matching metadata
C4_Witness ==
    /\ Classified
    /\ Contains(config.ignore_string, CurNode.name)
    /\ ~Contains(config.ignore_string, CurPath)
    /\ CurNode.group /\ CurMarked
    /\ CurNode.node_def_id = Some("BinaryAlarm")
    /\ Where(nodeIdx) = {}

\* the domain a matcher appends to when it runs alone on the node, NoDomain
\* when it does not match; m is the rank of the matcher in the cascade
MatcherResult(m, node) ==
    LET e == EmptyBuckets(SUPPORTED_DOMAINS)
    IN  CASE m = 1 -> _check_for_node_def(e, 1, node, NoDomain)
          [] m = 2 -> _check_for_insteon_type(e, 1, node, NoDomain)
          [] m = 3 -> _check_for_zwave_cat(e, 1, node, NoDomain)
          [] m = 4 -> _check_for_uom_id(e, 1, node, NoDomain, {})
          [] m = 5 -> _check_for_states_in_uom(e, 1, node, NoDomain, {})

MatcherChoice(m, node) ==
    LET r == MatcherResult(m, node)
    IN  IF r.ret THEN CHOOSE d \in DomainSet : r.data[d] # <<>>
        ELSE NoDomain

\* C5: in the default cascade the node goes to the domain chosen by the
\* matcher of highest priority that accepts it (node-def id, then protocol
\* type, then Z-Wave category, then uom code, then state tokens), and no
\* matcher of lower priority appends it anywhere.
C5_MatcherPriority ==
    (Classified /\ InCascade) =>
        \A m \in 1..5 :
            (/\ MatcherChoice(m, CurNode) # NoDomain
             /\ \A h \in 1..(m - 1) : MatcherChoice(h, CurNode) = NoDomain)
            => PlacedIn(MatcherChoice(m, CurNode))

\* node-def id says lock, the uom code says light: the node is a lock
C5_Witness ==
    /\ Classified /\ InCascade
    /\ MatcherChoice(1, CurNode) = "lock"
    /\ MatcherChoice(4, CurNode) = "light"
    /\ PlacedIn("lock")

LastDigit(node) == IntOfChar(LastChar(node.nid))

\* the first domain of SUPPORTED_DOMAINS one of whose prefixes starts `type`
PrefixDomain(type) ==
    LET S == {k \in 1..Len(SUPPORTED_DOMAINS) :
                 \E t \in NODE_FILTERS[SUPPORTED_DOMAINS[k]].insteon_type :
                     StartsWith(type, t)}
    IN  IF S = {} THEN NoDomain ELSE SUPPORTED_DOMAINS[Min(S)]

\* C6: in the default cascade, a node without node-def id whose type starts
\* with "1.46." is a light when its address ends in 1 and a fan otherwise;
\* one whose type starts with "5." is a binary_sensor when its address ends
\* in 2 or 3 and a climate otherwise; every other type that matches goes to
\* the domain that lists its prefix.
C6_InsteonRedirections ==
    (Classified /\ InCascade /\ IsNone(CurNode.node_def_id)
                /\ ~IsNone(CurNode.type)) =>
        LET type == Val(CurNode.type)
        IN  /\ StartsWith(type, "1.46.") =>
                IF LastDigit(CurNode) = 1 THEN PlacedIn("light")
                ELSE PlacedIn("fan")
            /\ StartsWith(type, "5.") =>
                IF LastDigit(CurNode) \in {2, 3} THEN PlacedIn("binary_sensor")
                ELSE PlacedIn("climate")
            /\ (/\ ~StartsWith(type, "1.46.")
                /\ ~StartsWith(type, "5.")
                /\ PrefixDomain(type) # NoDomain)
                => PlacedIn(PrefixDomain(type))

\* the light module of a FanLinc: type 1.46.x, address ending in 1
C6_Witness ==
    /\ Classified /\ InCascade
    /\ IsNone(CurNode.node_def_id)
    /\ CurNode.type = Some("1.46.0.0")
    /\ LastDigit(CurNode) = 1
    /\ PlacedIn("light")


\* C11: every group/scene node that is not ignored is placed in the switch
\* bucket and in no other, whether or not it carries the sensor marker and
\* whatever metadata it has.
C11_SceneIsSwitch ==
    (Classified /\ ~CurIgnored /\ CurNode.group) => PlacedIn(SCENE_DOMAIN)

\* a scene that carries the sensor marker and metadata of a binary sensor
C11_Witness ==
    /\ Classified
    /\ ~CurIgnored /\ CurNode.group /\ CurMarked
    /\ CurNode.node_def_id = Some("BinaryAlarm")
    /\ CurNode.type = Some("16.1.0.0")
    /\ PlacedIn("switch")

\* the lower-cased unit-of-measure values of the node in cur
CurUom == {Lower(Val(CurNode.uom)[k]) : k \in 1..Len(Val(CurNode.uom))}

\* the four conditions under which a forced sensor is a binary sensor
CurIsBinary ==
    \/ /\ ~IsNone(CurNode.node_def_id)
       /\ Val(CurNode.node_def_id) \in NODE_FILTERS["binary_sensor"].node_def_id
    \/ /\ ~IsNone(CurNode.type)
       /\ \E t \in NODE_FILTERS["binary_sensor"].insteon_type :
             StartsWith(Val(CurNode.type), t)
    \/ /\ ~IsNone(CurNode.uom)
       /\ CurUom \cap {"2", "78"} # {}
    \/ /\ ~IsNone(CurNode.uom)
       /\ CurUom = {"on", "off"}

\* C12: a non-ignored, non-group node carrying the sensor marker is placed in
\* binary_sensor exactly when its node-def id is in binary_sensor's id list,
\* or its type starts with one of binary_sensor's prefixes, or its lower-cased
\* uom values meet {"2", "78"}, or its lower-cased uom set is {"on", "off"};
\* otherwise it is placed in sensor.  The Z-Wave category and the uom and
\* states lists of binary_sensor in NODE_FILTERS play no part.
C12_ForcedSensorSplit ==
    (Classified /\ ~CurIgnored /\ ~CurNode.group /\ CurMarked) =>
        IF CurIsBinary THEN PlacedIn("binary_sensor") ELSE PlacedIn("sensor")

\* a marked node whose only binary trait is the state list On/OFF, and whose
\* Z-Wave category is one of binary_sensor's
C12_Witness ==
    /\ Classified
    /\ ~CurIgnored /\ ~CurNode.group /\ CurMarked
    /\ CurNode.node_def_id = Some("Unlisted")
    /\ CurNode.type = Some("4.1.0.0")
    /\ CurNode.devtype_cat = Some("104")
    /\ CurNode.uom = Some(<<"On", "OFF">>)
    /\ PlacedIn("binary_sensor")

\* C14: in the default cascade a node without node-def id, type and Z-Wave
\* category whose uom is present but empty is dropped: it is appended to no
\* bucket.
C14_EmptyUomDropped ==
    (/\ Classified /\ InCascade
     /\ IsNone(CurNode.node_def_id)
     /\ IsNone(CurNode.type)
     /\ IsNone(CurNode.devtype_cat)
     /\ CurNode.uom = Some(<<>>))
        => Where(nodeIdx) = {}

-----------------------------------------------------------------------------
(* _categorize_programs *)

MaxChildren == 2

\* 'HA.{}'.format(domain)
FolderKey(domain) == "HA." \o domain

\* handle of a leaf of the entity folder node_id
Leaf(node_id, key) == [folder |-> node_id, leaf |-> key]

\* LeavesValid that stops looking once the status leaf is found
LeavesValid_StatusOnly(domain, entity_folder) ==
    entity_folder.status = Some("program")

\* the try block of the loop body: TRUE when no AttributeError, KeyError or
\* AssertionError is raised for the entity folder
LeavesValid(domain, entity_folder) ==
    /\ entity_folder.status = Some("program")
    /\ domain # "binary_sensor" => entity_folder.actions = Some("program")

\* entity = (entity_folder.name, status, actions)
ProgramEntity(domain, entity_folder) ==
    <<entity_folder.name,
      Leaf(entity_folder.node_id, KEY_STATUS),
      IF domain # "binary_sensor"
      THEN Some(Leaf(entity_folder.node_id, KEY_ACTIONS))
      ELSE None>>

Warning(name) == [level |-> "warning", about |-> name]
Error(about) == [level |-> "error", about |-> about]

RECURSIVE ProgramsOfFolder(_, _, _, _)
\* the loop over folder.children from child k on; st = [data, log]
ProgramsOfFolder(st, domain, children, k) ==
    IF k > Len(children) THEN st
    ELSE
        LET child == children[k]
        IN  IF child.dtype # KEY_FOLDER
            THEN ProgramsOfFolder(st, domain, children, k + 1)
            ELSE IF ~LeavesValid(domain, child)
            THEN ProgramsOfFolder(
                     [st EXCEPT !.log = Append(@, Warning(child.name))],
                     domain, children, k + 1)
            ELSE ProgramsOfFolder(
                     [st EXCEPT !.data[domain] =
                                    Append(@, ProgramEntity(domain, child))],
                     domain, children, k + 1)

RECURSIVE _categorize_programs(_, _, _)
\* the loop over SUPPORTED_PROGRAM_DOMAINS from domain number i on
_categorize_programs(st, programs, i) ==
    IF i > Len(SUPPORTED_PROGRAM_DOMAINS) THEN st
    ELSE
        LET domain == SUPPORTED_PROGRAM_DOMAINS[i]
            \* programs[KEY_MY_PROGRAMS]['HA.{}'.format(domain)] raises KeyError
            missing == \/ IsNone(programs)
                       \/ FolderKey(domain) \notin DOMAIN Val(programs)
        IN  IF missing THEN _categorize_programs(st, programs, i + 1)
            ELSE _categorize_programs(
                     ProgramsOfFolder(st, domain,
                                      Val(programs)[FolderKey(domain)], 1),
                     programs, i + 1)

CategorizePrograms ==
    /\ pc = "programs"
    /\ LET st == _categorize_programs([data |-> programBuckets, log |-> log],
                                      isy.programs, 1)
       IN  /\ programBuckets' = st.data
           /\ log' = st.log
    /\ trace' = Append(trace, "programs")
    /\ pc' = "vars_sensor"
    /\ UNCHANGED <<config, isy, nodeBuckets, variableBuckets, weather,
                   nodeIdx, cur, loaded, autoUpdate, result, passes, prev>>

\* children of a program folder: sub-folders with their two leaves present
\* as program, present as folder, or absent; and plain programs
ChildKinds ==
    { [dtype |-> KEY_FOLDER, status |-> s, actions |-> a] :
        s \in {None, Some("program"), Some("folder")},
        a \in {None, Some("program"), Some("folder")} }
    \cup { [dtype |-> "program", status |-> None, actions |-> None] }

\* a child list: the kinds with node_id and name given by the position
ChildList(kinds) ==
    [k \in 1..Len(kinds) |->
        [dtype |-> kinds[k].dtype, node_id |-> k, name |-> "Prog" \o Str(k),
         status |-> kinds[k].status, actions |-> kinds[k].actions]]

ChildLists ==
    UNION { {ChildList(kinds) : kinds \in [1..n -> ChildKinds]} :
            n \in 0..MaxChildren }

\* the isy.programs directories: without "My Programs", or with one folder,
\* named after a program domain or after a domain that has no programs
ProgramDirs ==
    {None, Some(<<>>)} \cup
    { Some([key \in {FolderKey(d)} |-> children]) :
        d \in {"binary_sensor", "lock", "switch", "light"},
        children \in ChildLists }

InitPrograms ==
    \E programs \in ProgramDirs :
        InitAt("programs", NoConfig, [NoIsy EXCEPT !.programs = programs])

NextPrograms == CategorizePrograms

SpecPrograms == InitPrograms /\ [][NextPrograms]_vars

\* _categorize_programs has returned
ProgramsDone == pc = "vars_sensor"

\* the children of the folder HA.<domain>, <<>> when it does not exist
FolderChildren(domain) ==
    IF IsNone(isy.programs) \/ FolderKey(domain) \notin DOMAIN Val(isy.programs)
    THEN <<>>
    ELSE Val(isy.programs)[FolderKey(domain)]

\* positions in the bucket of `domain` of entities made from folder node_id
EntitiesOf(domain, node_id) ==
    {j \in 1..Len(programBuckets[domain]) :
        programBuckets[domain][j][2].folder = node_id}

WarningsAbout(name) ==
    {j \in 1..Len(log) : log[j] = Warning(name)}

\* what the claim calls well-formed: a status leaf of kind program and, unless
\* the domain is binary_sensor, an actions leaf of kind program
WellFormed(domain, child) ==
    /\ child.status = Some("program")
    /\ \/ domain = "binary_sensor"
       \/ child.actions = Some("program")

\* C7: in every program domain, a malformed child folder yields no entity and
\* a warning; every well-formed child folder, before or after it, yields
\* exactly one entity (name, status, actions) in the bucket of the domain, in
\* the order of the children; for binary_sensor only the status leaf is
\* required and the actions handle is None.
C7_ProgramFolders ==
    ProgramsDone =>
        \A i \in 1..Len(SUPPORTED_PROGRAM_DOMAINS) :
            LET domain == SUPPORTED_PROGRAM_DOMAINS[i]
                children == FolderChildren(domain)
                bucket == programBuckets[domain]
            IN  /\ \A k \in 1..Len(children) :
                      children[k].dtype = KEY_FOLDER =>
                        IF WellFormed(domain, children[k])
                        THEN \E j \in 1..Len(bucket) :
                                /\ EntitiesOf(domain, children[k].node_id) = {j}
                                /\ bucket[j][1] = children[k].name
                                /\ bucket[j][2] =
                                     Leaf(children[k].node_id, KEY_STATUS)
                                /\ bucket[j][3] =
                                     IF domain = "binary_sensor" THEN None
                                     ELSE Some(Leaf(children[k].node_id,
                                                    KEY_ACTIONS))
                        ELSE /\ EntitiesOf(domain, children[k].node_id) = {}
                             /\ WarningsAbout(children[k].name) # {}
                /\ \A j1, j2 \in 1..Len(bucket) :
                      j1 < j2 => bucket[j1][2].folder < bucket[j2][2].folder

\* a lock folder without actions leaf followed by a well-formed one
C7_Witness ==
    /\ ProgramsDone
    /\ Len(FolderChildren("lock")) = 2
    /\ FolderChildren("lock")[1].dtype = KEY_FOLDER
    /\ FolderChildren("lock")[1].status = Some("program")
    /\ FolderChildren("lock")[1].actions = None
    /\ WellFormed("lock", FolderChildren("lock")[2])
    /\ FolderChildren("lock")[2].dtype = KEY_FOLDER
    /\ Len(programBuckets["lock"]) = 1
    /\ programBuckets["lock"][1][1] = "Prog2"
    /\ log = <<Warning("Prog1")>>


-----------------------------------------------------------------------------
(* _categorize_variables *)

MaxDescriptors == 2

\* variables[vtype][vid]
VarHandle(vtype, vid) == [type |-> vtype, id |-> vid]

\* var for i, var in enumerate(variables[vtype].children) if var[2] == vid
MatchingChildren(variables, vtype, vid) ==
    {k \in 1..Len(variables[vtype]) : variables[vtype][k].id = vid}

RECURSIVE VariablesFrom(_, _, _, _, _)
\* the loop over domain_cfg from descriptor k on; st = [data, log, raised]
VariablesFrom(st, variables, domain_cfg, domain, k) ==
    IF k > Len(domain_cfg) THEN st
    ELSE
        LET isy_var == domain_cfg[k]
            vid == isy_var.id
            vtype == isy_var.type
            found == MatchingChildren(variables, vtype, vid)
        IN  IF found = {}
            \* next(..., None) yields None and "_, vname, _ = None" raises
            THEN [st EXCEPT !.raised = Some("TypeError")]
            ELSE
                LET vname == variables[vtype][Min(found)].name
                IN  IF IsNone(vname)
                    THEN VariablesFrom(
                             [st EXCEPT !.log =
                                  Append(@, Error(VarHandle(vtype, vid)))],
                             variables, domain_cfg, domain, k + 1)
                    ELSE VariablesFrom(
                             [st EXCEPT !.data[domain] =
                                  Append(@, <<isy_var, Val(vname),
                                              VarHandle(vtype, vid)>>)],
                             variables, domain_cfg, domain, k + 1)

_categorize_variables(st, variables, domain_cfg, domain) ==
    IF IsNone(domain_cfg) THEN st
    ELSE VariablesFrom(st, variables, Val(domain_cfg), domain, 1)

\* one of the three calls of setup: at position `at`, for the descriptors
\* domain_cfg and the domain `domain`, followed by position `next`
VariablesCall(at, domain_cfg, domain, next) ==
    /\ pc = at
    /\ LET st == _categorize_variables(
                     [data |-> variableBuckets, log |-> log, raised |-> None],
                     isy.variables, domain_cfg, domain)
       IN  /\ variableBuckets' = st.data
           /\ log' = st.log
           /\ IF IsNone(st.raised)
              THEN /\ pc' = next
                   /\ result' = result
              ELSE /\ pc' = "done"
                   /\ result' = Some("raised " \o Val(st.raised))
    /\ trace' = Append(trace, "variables:" \o domain)
    /\ UNCHANGED <<config, isy, nodeBuckets, programBuckets, weather, nodeIdx,
                   cur, loaded, autoUpdate, passes, prev>>

VariablesSensor ==
    VariablesCall("vars_sensor", config.isy_variables.sensors, "sensor",
                  "vars_binary_sensor")

VariablesBinarySensor ==
    VariablesCall("vars_binary_sensor", config.isy_variables.binary_sensors,
                  "binary_sensor", "vars_switch")

VariablesSwitch ==
    VariablesCall("vars_switch", config.isy_variables.switches, "switch",
                  "weather")

\* the live variable directory: per type, children (name, id); a child may
\* come without a name
VarChildren ==
    { <<>>,
      <<[name |-> Some("alpha"), id |-> 1]>>,
      <<[name |-> Some("alpha"), id |-> 1], [name |-> None, id |-> 2]>> }

VarDirs == {<<c1, c2>> : c1 \in VarChildren, c2 \in VarChildren}

\* variable descriptors, as VAR_BASE_SCHEMA admits them
Descriptors == {[id |-> i, type |-> t] : i \in {1, 2}, t \in {1, 2}}

DescriptorLists ==
    {None} \cup
    UNION { {Some(l) : l \in [1..n -> Descriptors]} : n \in 0..MaxDescriptors }

InitVariables ==
    \E variables \in VarDirs, sensors \in DescriptorLists,
       others \in {None, Some(<<[id |-> 1, type |-> 1]>>)} :
        InitAt("vars_sensor",
               [NoConfig EXCEPT !.isy_variables =
                    [sensors |-> sensors, binary_sensors |-> others,
                     switches |-> others]],
               [NoIsy EXCEPT !.variables = variables])

NextVariables == VariablesSensor \/ VariablesBinarySensor \/ VariablesSwitch

SpecVariables == InitVariables /\ [][NextVariables]_vars


\* the call of _categorize_variables for the sensor descriptors is over
SensorVariablesDone ==
    \E k \in 1..Len(trace) : trace[k] = "variables:sensor"

\* the sensor descriptors of the configuration
SensorDescriptors ==
    IF IsNone(config.isy_variables.sensors) THEN <<>>
    ELSE Val(config.isy_variables.sensors)

\* the descriptor has no child of its id in the directory of its type
Unresolved(isy_var) ==
    \A k \in 1..Len(isy.variables[isy_var.type]) :
        isy.variables[isy_var.type][k].id # isy_var.id

\* the descriptor resolves to a child that has a name
Named(isy_var) ==
    \E k \in 1..Len(isy.variables[isy_var.type]) :
        /\ isy.variables[isy_var.type][k].id = isy_var.id
        /\ ~IsNone(isy.variables[isy_var.type][k].name)

\* C3: a descriptor whose id is not in the live directory of its type is
\* skipped with a logged error: no exception escapes, setup is not aborted,
\* no entity is appended for it, and the bucket holds, in order, one entity
\* for every descriptor of the list that resolves to a named variable.
C3_UnresolvedSkipped ==
    SensorVariablesDone =>
        /\ IsNone(result)
        /\ \A k \in 1..Len(SensorDescriptors) :
              Unresolved(SensorDescriptors[k]) =>
                \E j \in 1..Len(log) :
                    log[j] = Error(VarHandle(SensorDescriptors[k].type,
                                             SensorDescriptors[k].id))
        /\ LET resolved == SelectSeq(SensorDescriptors, Named)
           IN  /\ Len(variableBuckets["sensor"]) = Len(resolved)
               /\ \A j \in 1..Len(resolved) :
                     /\ variableBuckets["sensor"][j][1] = resolved[j]
                     /\ variableBuckets["sensor"][j][3] =
                          VarHandle(resolved[j].type, resolved[j].id)

-----------------------------------------------------------------------------
(* _categorize_weather *)

\* attribute names a climate object may carry besides those of every object,
\* in the order of dir(): sorted
WeatherAttrs ==
    <<"humidity", "humidity_units", "temperature", "temperature_units",
      "temperature_units_units", "wind_speed", "wind_speed_units">>

ObjectAttrs == <<"__class__", "__init__">>

\* dir(climate): the sorted list of the attribute names
Dir(climate) ==
    LET Has(a) == a \in DOMAIN climate
    IN  SelectSeq(ObjectAttrs \o WeatherAttrs, Has)

RECURSIVE Replace(_, _, _)
\* str.replace(old, new) for a one-character old
Replace(str, old, new) ==
    IF Len(str) = 0 THEN ""
    ELSE (IF SubSeq(str, 1, 1) = old THEN new ELSE SubSeq(str, 1, 1))
         \o Replace(SubSeq(str, 2, Len(str)), old, new)

\* '{}_units'.format(attr)
UnitsOf(attr) == attr \o "_units"

WeatherNode(status, name, uom) ==
    [status |-> status, name |-> name, uom |-> uom]

\* weather_nodes with the units looked for under the name of the attribute
HasUnits_SameName(climate_attrs, attr) ==
    \E k \in 1..Len(climate_attrs) : climate_attrs[k] = attr

\* '{}_units'.format(attr) in climate_attrs
HasUnits(climate_attrs, attr) ==
    \E k \in 1..Len(climate_attrs) : climate_attrs[k] = UnitsOf(attr)

\* getattr(climate, attr); a missing attribute reads as None here
GetAttr(climate, attr) ==
    IF attr \in DOMAIN climate THEN climate[attr] ELSE None

\* the list comprehension weather_nodes
WeatherNodes(climate) ==
    LET climate_attrs == Dir(climate)
        Paired(attr) == HasUnits(climate_attrs, attr)
        attrs == SelectSeq(climate_attrs, Paired)
    IN  [k \in 1..Len(attrs) |->
            WeatherNode(GetAttr(climate, attrs[k]),
                        Replace(attrs[k], "_", " "),
                        GetAttr(climate, UnitsOf(attrs[k])))]

\* if enable_climate and isy.configuration.get('Weather Information'):
\*     _categorize_weather(hass, isy.climate)
\* followed by the registration of the stop listener, which writes nothing
\* that is modelled
CategorizeWeather ==
    /\ pc = "weather"
    /\ IF config.enable_climate /\ isy.weather_information
       THEN /\ weather' = weather \o WeatherNodes(isy.climate)
            /\ trace' = Append(trace, "weather")
       ELSE UNCHANGED <<weather, trace>>
    /\ pc' = "load_platform"
    /\ UNCHANGED <<config, isy, nodeBuckets, programBuckets, variableBuckets,
                   nodeIdx, cur, log, loaded, autoUpdate, result, passes,
                   prev>>

\* the value an attribute of the climate object holds
AttrValue(attr) == Some("value of " \o attr)

\* climate objects: the attributes of every object and any of WeatherAttrs
Climates ==
    { [a \in SetOfSeq(ObjectAttrs) \cup S |-> AttrValue(a)] :
        S \in SUBSET SetOfSeq(WeatherAttrs) }

InitWeather ==
    \E climate \in Climates, enable_climate \in BOOLEAN,
       weather_information \in BOOLEAN :
        InitAt("weather",
               [NoConfig EXCEPT !.enable_climate = enable_climate],
               [NoIsy EXCEPT !.climate = climate,
                             !.weather_information = weather_information])

NextWeather == CategorizeWeather

SpecWeather == InitWeather /\ [][NextWeather]_vars

\* _categorize_weather has run
WeatherDone ==
    \E k \in 1..Len(trace) : trace[k] = "weather"

\* the attributes X of the climate object that have a sibling X_units
PairedAttrs ==
    {a \in DOMAIN isy.climate : (a \o "_units") \in DOMAIN isy.climate}

\* C10: the weather list holds exactly one entry (value of X, label, value of
\* X_units) for each attribute X that has a sibling X_units, and no other.
C10_WeatherPairs ==
    WeatherDone =>
        /\ Len(weather) = Cardinality(PairedAttrs)
        /\ \A a \in PairedAttrs :
              Cardinality({k \in 1..Len(weather) :
                              /\ weather[k].status = isy.climate[a]
                              /\ weather[k].uom = isy.climate[a \o "_units"]})
                  = 1

\* temperature, temperature_units and humidity without humidity_units: one
\* entry, for temperature
C10_Witness ==
    /\ WeatherDone
    /\ DOMAIN isy.climate =
         SetOfSeq(ObjectAttrs) \cup
         {"temperature", "temperature_units", "humidity"}
    /\ weather = <<WeatherNode(isy.climate["temperature"], "temperature",
                               isy.climate["temperature_units"])>>


-----------------------------------------------------------------------------
(* setup *)

MaxPasses == 2

\* urlparse(url).scheme: the text before the first ":", lower-cased
Scheme(url) ==
    LET S == {k \in 1..Len(url) : SubSeq(url, k, k) = ":"}
    IN  IF S = {} THEN "" ELSE Lower(SubSeq(url, 1, Min(S) - 1))

\* setup that keeps the collections of the previous pass
FreshCollections_Keep(old) == old

\* lines 512-524: every collection is created anew, empty
FreshCollections(old) == NoCollections

\* the host calls setup: the collections are recreated and the configuration
\* is read (lines 512-535)
SetupBegin ==
    /\ pc \in {"idle", "done"}
    /\ passes < MaxPasses
    /\ prev' = IF pc = "done" THEN Some(Collections) ELSE None
    /\ LET fresh == FreshCollections(Collections)
       IN  /\ nodeBuckets' = fresh.nodes
           /\ programBuckets' = fresh.programs
           /\ variableBuckets' = fresh.variables
           /\ weather' = fresh.weather
    /\ nodeIdx' = 0
    /\ cur' = None
    /\ loaded' = <<>>
    /\ autoUpdate' = FALSE
    /\ result' = None
    /\ trace' = <<>>
    /\ passes' = passes + 1
    /\ pc' = "host"
    /\ UNCHANGED <<config, isy, log>>

\* lines 537-545: the scheme of the host url
SetupHost ==
    /\ pc = "host"
    /\ IF Scheme(config.host) \in {"http", "https"}
       THEN /\ pc' = "connect"
            /\ UNCHANGED <<log, result>>
       ELSE /\ log' = Append(log, Error("host"))
            /\ result' = Some("False")
            /\ pc' = "done"
    /\ UNCHANGED <<config, isy, nodeBuckets, programBuckets, variableBuckets,
                   weather, nodeIdx, cur, loaded, autoUpdate, passes, trace,
                   prev>>

\* SetupConnect without the test of isy.connected
SetupConnect_NoTest ==
    /\ pc = "connect"
    /\ pc' = "nodes_for"
    /\ UNCHANGED <<config, isy, nodeBuckets, programBuckets, variableBuckets,
                   weather, nodeIdx, cur, log, loaded, autoUpdate, result,
                   passes, trace, prev>>

\* lines 547-552: connect to the controller
SetupConnect ==
    /\ pc = "connect"
    /\ IF isy.connected
       THEN /\ pc' = "nodes_for"
            /\ UNCHANGED result
       ELSE /\ result' = Some("False")
            /\ pc' = "done"
    /\ UNCHANGED <<config, isy, nodeBuckets, programBuckets, variableBuckets,
                   weather, nodeIdx, cur, log, loaded, autoUpdate, passes,
                   trace, prev>>

\* the iteration of isy.nodes is exhausted: _categorize_nodes returns
NodesEnd ==
    /\ pc = "nodes_for"
    /\ nodeIdx = Len(isy.nodes)
    /\ trace' = Append(trace, "nodes")
    /\ pc' = "programs"
    /\ UNCHANGED <<config, isy, nodeBuckets, programBuckets, variableBuckets,
                   weather, nodeIdx, cur, log, loaded, autoUpdate, result,
                   passes, prev>>

\* LoadPlatform that may start before the weather has been categorized
LoadPlatform_Early ==
    /\ pc \in {"weather", "load_platform"}
    /\ Len(loaded) < Len(SUPPORTED_DOMAINS)
    /\ loaded' = Append(loaded, SUPPORTED_DOMAINS[Len(loaded) + 1])
    /\ UNCHANGED <<pc, config, isy, nodeBuckets, programBuckets,
                   variableBuckets, weather, nodeIdx, cur, log, autoUpdate,
                   result, passes, trace, prev>>

\* lines 576-577: load the next platform
LoadPlatform ==
    /\ pc = "load_platform"
    /\ Len(loaded) < Len(SUPPORTED_DOMAINS)
    /\ loaded' = Append(loaded, SUPPORTED_DOMAINS[Len(loaded) + 1])
    /\ UNCHANGED <<pc, config, isy, nodeBuckets, programBuckets,
                   variableBuckets, weather, nodeIdx, cur, log, autoUpdate,
                   result, passes, trace, prev>>

\* lines 579-580: enable auto update and return True
SetupEnd ==
    /\ pc = "load_platform"
    /\ Len(loaded) = Len(SUPPORTED_DOMAINS)
    /\ autoUpdate' = TRUE
    /\ result' = Some("True")
    /\ pc' = "done"
    /\ UNCHANGED <<config, isy, nodeBuckets, programBuckets, variableBuckets,
                   weather, nodeIdx, cur, log, loaded, passes, trace, prev>>

\* nodes of a small installation: a dimmer, a scene named as a sensor, an
\* ignored relay and a door sensor
SetupNodes ==
    { [path |-> "/Hall",
       node |-> [name |-> "Lamp", group |-> FALSE,
                 node_def_id |-> Some("DimmerLampSwitch"), type |-> None,
                 devtype_cat |-> None, uom |-> Some(<<"%", "on", "off">>),
                 nid |-> "1A 2B 3C 1"]],
      [path |-> "/Hall",
       node |-> [name |-> "All sensors", group |-> TRUE, node_def_id |-> None,
                 type |-> None, devtype_cat |-> None, uom |-> None,
                 nid |-> "00:21:b9:02:00:01"]],
      [path |-> "/Attic {IGNORE ME}",
       node |-> [name |-> "Relay", group |-> FALSE, node_def_id |-> None,
                 type |-> Some("2.9.0.0"), devtype_cat |-> None,
                 uom |-> Some(<<"on", "off">>), nid |-> "4D 5E 6F 1"]],
      [path |-> "/Hall",
       node |-> [name |-> "Door sensor", group |-> FALSE,
                 node_def_id |-> None, type |-> Some("16.1.0.0"),
                 devtype_cat |-> None, uom |-> Some(<<"On", "Off">>),
                 nid |-> "7A 8B 9C 1"]] }

SetupNodeLists ==
    UNION { [1..n -> SetupNodes] : n \in 0..MaxNodes }

Hosts == {"http://isy", "HTTPS://isy:8443", "ftp://isy"}

SetupPrograms ==
    { None,
      Some([key \in {FolderKey("switch")} |->
              ChildList(<<[dtype |-> KEY_FOLDER, status |-> Some("program"),
                           actions |-> Some("program")]>>)]) }

SetupVariables ==
    <<<<[name |-> Some("alpha"), id |-> 1]>>, <<>>>>

SetupDescriptors ==
    { [sensors |-> Some(<<[id |-> 1, type |-> 1]>>), binary_sensors |-> None,
       switches |-> Some(<<>>)],
      [sensors |-> Some(<<>>), binary_sensors |-> Some(<<>>),
       switches |-> Some(<<[id |-> 1, type |-> 1], [id |-> 1, type |-> 2]>>)],
      [sensors |-> Some(<<[id |-> 1, type |-> 1]>>),
       binary_sensors |-> Some(<<[id |-> 1, type |-> 1]>>),
       switches |-> Some(<<[id |-> 1, type |-> 1]>>)] }

SetupClimate ==
    [a \in SetOfSeq(ObjectAttrs) \cup {"temperature", "temperature_units"}
       |-> AttrValue(a)]

Init ==
    \E host \in Hosts, enable_climate \in BOOLEAN,
       isy_variables \in SetupDescriptors, connected \in BOOLEAN,
       nodes \in SetupNodeLists, programs \in SetupPrograms :
        InitAt("idle",
               [NoConfig EXCEPT !.host = host,
                                !.enable_climate = enable_climate,
                                !.isy_variables = isy_variables],
               [connected |-> connected, nodes |-> nodes,
                programs |-> programs, variables |-> SetupVariables,
                weather_information |-> TRUE, climate |-> SetupClimate])

Next ==
    \/ SetupBegin
    \/ SetupHost
    \/ SetupConnect
    \/ NodesFor
    \/ NodesBody
    \/ NodesContinue
    \/ NodesEnd
    \/ CategorizePrograms
    \/ VariablesSensor
    \/ VariablesBinarySensor
    \/ VariablesSwitch
    \/ CategorizeWeather
    \/ LoadPlatform
    \/ SetupEnd

Spec == Init /\ [][Next]_vars

\* C8: when the scheme of the host url is neither http nor https, or the
\* controller is not connected, setup returns False with every node, program
\* and variable bucket and the weather list empty, no classifier run, no
\* platform loaded and auto update not enabled.
C8_FailedSetup ==
    (pc = "done" /\ (\/ Scheme(config.host) \notin {"http", "https"}
                     \/ ~isy.connected)) =>
        /\ result = Some("False")
        /\ Collections = NoCollections
        /\ trace = <<>>
        /\ nodeIdx = 0
        /\ loaded = <<>>
        /\ ~autoUpdate

\* the controller does not answer on a valid url
C8_Witness ==
    /\ pc = "done"
    /\ Scheme(config.host) = "https"
    /\ ~isy.connected
    /\ Len(isy.nodes) > 0
    /\ result = Some("False")
    /\ Collections = NoCollections

\* the node references of every bucket are in the order of the iteration
NodeOrder ==
    \A d \in DomainSet :
        \A j1, j2 \in 1..Len(nodeBuckets[d]) :
            j1 < j2 => nodeBuckets[d][j1] < nodeBuckets[d][j2]

\* C9: a pass of setup over the same controller input and configuration ends
\* with the collections exactly as the previous pass left them, and every
\* node bucket lists its nodes in the order of the input.
C9_RerunIdentical ==
    (pc = "done" /\ ~IsNone(prev)) =>
        /\ Collections = Val(prev)
        /\ NodeOrder

\* the second pass has returned True with nodes, a program, a variable and a
\* weather entry in the collections
C9_Witness ==
    /\ pc = "done"
    /\ passes = 2
    /\ result = Some("True")
    /\ Len(nodeBuckets["light"]) + Len(nodeBuckets["switch"]) >= 2
    /\ Len(programBuckets["switch"]) = 1
    /\ Len(variableBuckets["sensor"]) = 1
    /\ Len(weather) = 1
    /\ Collections = Val(prev)


\* the classifier calls of a pass, in the order of lines 554-566
CallOrder ==
    <<"nodes", "programs", "variables:sensor", "variables:binary_sensor",
      "variables:switch", "weather">>

\* C13: while a pass of setup runs, the node buckets are written first, then
\* the program buckets, then the variable buckets of sensor, binary_sensor
\* and switch in that order, then the weather list; once a platform has been
\* loaded or auto update is enabled, no collection is written by that pass.
C13_WritesBeforeLoad ==
    [][pc \notin {"idle", "done"} =>
          /\ nodeBuckets' # nodeBuckets =>
                (pc = "nodes_body" /\ trace = <<>>)
          /\ programBuckets' # programBuckets =>
                (pc = "programs" /\ trace = SubSeq(CallOrder, 1, 1))
          /\ variableBuckets'["sensor"] # variableBuckets["sensor"] =>
                (pc = "vars_sensor" /\ trace = SubSeq(CallOrder, 1, 2))
          /\ variableBuckets'["binary_sensor"]
               # variableBuckets["binary_sensor"] =>
                (pc = "vars_binary_sensor" /\ trace = SubSeq(CallOrder, 1, 3))
          /\ variableBuckets'["switch"] # variableBuckets["switch"] =>
                (pc = "vars_switch" /\ trace = SubSeq(CallOrder, 1, 4))
          /\ weather' # weather =>
                (pc = "weather" /\ trace = SubSeq(CallOrder, 1, 5))
          /\ (loaded # <<>> \/ autoUpdate) =>
                /\ nodeBuckets' = nodeBuckets
                /\ programBuckets' = programBuckets
                /\ variableBuckets' = variableBuckets
                /\ weather' = weather
      ]_vars

\* a pass that wrote every kind of collection has returned True
C13_Witness ==
    /\ pc = "done"
    /\ result = Some("True")
    /\ trace = CallOrder
    /\ loaded = SUPPORTED_DOMAINS
    /\ autoUpdate
    /\ \E d \in DomainSet : nodeBuckets[d] # <<>>
    /\ programBuckets["switch"] # <<>>
    /\ \A d \in SetOfSeq(SUPPORTED_VARIABLE_DOMAINS) : variableBuckets[d] # <<>>
    /\ weather # <<>>


====
